---------------------------- MODULE Spec2Model ----------------------------
(***************************************************************************)
(* A model of the leviosa capture analyser (crates/data-captures) and of   *)
(* the desk protocol codec (crates/protocol).                              *)
(*                                                                         *)
(* Rust slices and vectors are sequences.  Indices are kept 0-based as in  *)
(* the source; Get and Slice translate them to TLA+ sequences.             *)
(***************************************************************************)
EXTENDS Integers, Sequences, FiniteSets, TLC

VARIABLES
    pc,                  \* position of the running function
    controller_frames,   \* main: frames of controller.csv
    desk_frames,         \* main: frames of desk.csv
    controller_packets,  \* main: parse_packets(&controller_frames, Controller)
    desk_packets,        \* main: parse_packets(&desk_frames, Desk)
    all_packets,         \* main: the merged vector
    segments,            \* main: build_segments(&all_packets)
    frames,              \* parse_packets: its frames argument
    source,              \* parse_packets: its source argument
    packets,             \* parse_packets: its return value
    record,              \* parse_frames: the record of the current iteration
    records_read,        \* parse_frames: records taken from csv_reader.records()
    parsed_frames,       \* parse_frames: the vector it builds
    raw_data,            \* protocol Packet: the buffer it borrows
    called,              \* protocol Packet: the method called last
    ret,                 \* protocol Packet: what that call returned
    inserted,            \* protocol Packet: insert_checksum has returned
    command,             \* protocol Command: the command to encode
    written,             \* protocol Command: the bytes write_to gave the writer
    decoded              \* protocol Command: what read_from returned

mainVars == <<controller_frames, desk_frames, controller_packets, desk_packets,
              all_packets, segments>>
asmVars == <<frames, source, packets>>
rowVars == <<record, records_read, parsed_frames>>
codecVars == <<raw_data, called, ret, inserted>>
cmdVars == <<command, written, decoded>>
vars == <<pc, mainVars, asmVars, rowVars, codecVars, cmdVars>>

None == "None"

\* Option<usize>
NoIndex == <<>>
SomeIndex(i) == <<i>>

(***************************************************************************)
(* Bounds of the model.                                                    *)
(***************************************************************************)
MaxFrames == 4      \* longest frame sequence given to parse_packets alone
MaxPackets == 4     \* packets of both devices together in one run of main
MaxRows == 2        \* records of one capture file
MaxLen == 7         \* longest buffer given to the Packet methods alone
MaxTime == 2        \* latest timestamp of a captured burst

(***************************************************************************)
(* 0-based access to sequences.                                            *)
(***************************************************************************)
Get(s, i) == s[i + 1]

\* &s[lo..hi]: the elements at 0-based indices lo .. hi-1
Slice(s, lo, hi) == SubSeq(s, lo + 1, hi)

(***************************************************************************)
(* Frame, FrameValue, Packet, Segment.                                     *)
(***************************************************************************)
START == 250   \* 0xFA
END == 253     \* 0xFD

Value(b) == [kind |-> "Value", byte |-> b]
ParityError(text) == [kind |-> "ParityError", text |-> text]
FramingError(text) == [kind |-> "FramingError", text |-> text]

Frame(time, value) == [time |-> time, value |-> value]

\* Packet::Desk(&frames[lo..hi]) or Packet::Controller(&frames[lo..hi]): the
\* variant, the borrowed range and the frames it holds.
Packet(src, fs, lo, hi) ==
    [source |-> src, lo |-> lo, hi |-> hi, data |-> Slice(fs, lo, hi)]

\* Segment::Desk(&all_packets[lo..hi]) or Segment::Controller(...)
Segment(src, ps, lo, hi) ==
    [source |-> src, lo |-> lo, hi |-> hi, packets |-> Slice(ps, lo, hi)]

(***************************************************************************)
(* parse_packets: the scan for sentinel-delimited runs.                    *)
(***************************************************************************)
\* The same with the start sentinel left in the slice: &frames[start..index]
PacketDataFromStart(src, fs, start, index) == Packet(src, fs, start, index)

\* The slice pushed on Value(0xFD) with a pending start.
PacketData(src, fs, start, index) == Packet(src, fs, start + 1, index)

\* The scan that keeps the first pending start: a Value(0xFA) met while a
\* start is pending is left in the payload.
RECURSIVE ParsePacketsLoopFirstStart(_, _, _, _, _)
ParsePacketsLoopFirstStart(fs, src, index, start_index, acc) ==
    IF index >= Len(fs) THEN acc
    ELSE LET value == Get(fs, index).value IN
         IF value = Value(START)
         THEN ParsePacketsLoopFirstStart(fs, src, index + 1,
                  IF start_index = NoIndex THEN SomeIndex(index) ELSE start_index,
                  acc)
         ELSE IF value = Value(END) /\ start_index # NoIndex
         THEN ParsePacketsLoopFirstStart(fs, src, index + 1, NoIndex,
                  Append(acc, PacketData(src, fs, start_index[1], index)))
         ELSE ParsePacketsLoopFirstStart(fs, src, index + 1, start_index, acc)

RECURSIVE ParsePacketsLoop(_, _, _, _, _)
ParsePacketsLoop(fs, src, index, start_index, acc) ==
    IF index >= Len(fs) THEN acc
    ELSE LET value == Get(fs, index).value IN
         IF value = Value(START)
         THEN ParsePacketsLoop(fs, src, index + 1, SomeIndex(index), acc)
         ELSE IF value = Value(END)
         THEN IF start_index # NoIndex
              THEN ParsePacketsLoop(fs, src, index + 1, NoIndex,
                       Append(acc, PacketData(src, fs, start_index[1], index)))
              ELSE ParsePacketsLoop(fs, src, index + 1, start_index, acc)
         ELSE ParsePacketsLoop(fs, src, index + 1, start_index, acc)

ParsePackets(fs, src) == ParsePacketsLoop(fs, src, 0, NoIndex, <<>>)


(***************************************************************************)
(* impl PartialOrd for Packet, and the sort of main.                       *)
(***************************************************************************)
\* first_frame.get(0)?.time.partial_cmp(&second_frame.get(0)?.time): None as
\* soon as one of the two payloads is empty.
PartialCmp(first, second) ==
    IF Len(first.data) = 0 THEN None
    ELSE IF Len(second.data) = 0 THEN None
    ELSE LET a == Get(first.data, 0).time
             b == Get(second.data, 0).time
         IN IF a < b THEN "Less" ELSE IF a = b THEN "Equal" ELSE "Greater"

\* The closure with its operands exchanged: second.partial_cmp(first)
CompareSwapped(first, second) ==
    IF PartialCmp(second, first) = None THEN "Less" ELSE PartialCmp(second, first)

\* The closure given to sort_by: partial_cmp(..).unwrap_or(Ordering::Less)
Compare(first, second) ==
    IF PartialCmp(first, second) = None THEN "Less" ELSE PartialCmp(first, second)

\* Whether the closure orders the elements of v totally; sort_by promises its
\* result only then.  A vector of fewer than two elements is never compared.
TotalOrder(v) ==
    /\ \A i, j \in 1..Len(v) : i # j =>
          /\ (Compare(v[i], v[j]) = "Less") <=> (Compare(v[j], v[i]) = "Greater")
          /\ (Compare(v[i], v[j]) = "Equal") <=> (Compare(v[j], v[i]) = "Equal")
    /\ \A i, j, k \in 1..Len(v) :
          (Compare(v[i], v[j]) # "Greater" /\ Compare(v[j], v[k]) # "Greater")
              => Compare(v[i], v[k]) # "Greater"

\* The insertion that is not stable: x moves left past the elements it is
\* Equal to as well.
RECURSIVE InsertTailPastEqual(_, _)
InsertTailPastEqual(sorted, x) ==
    IF sorted = <<>> THEN <<x>>
    ELSE IF Compare(x, sorted[Len(sorted)]) # "Greater"
         THEN Append(InsertTailPastEqual(SubSeq(sorted, 1, Len(sorted) - 1), x),
                     sorted[Len(sorted)])
         ELSE Append(sorted, x)

\* One step of the stable insertion: x moves left past every element it is
\* Less than, and stays behind the elements it is Equal to.
RECURSIVE InsertTail(_, _)
InsertTail(sorted, x) ==
    IF sorted = <<>> THEN <<x>>
    ELSE IF Compare(x, sorted[Len(sorted)]) = "Less"
         THEN Append(InsertTail(SubSeq(sorted, 1, Len(sorted) - 1), x),
                     sorted[Len(sorted)])
         ELSE Append(sorted, x)

RECURSIVE StableSortLoop(_, _, _)
StableSortLoop(v, i, sorted) ==
    IF i > Len(v) THEN sorted
    ELSE StableSortLoop(v, i + 1, InsertTail(sorted, v[i]))

StableSort(v) == StableSortLoop(v, 1, <<>>)

RECURSIVE Orders(_)
Orders(S) ==
    IF S = {} THEN {<<>>}
    ELSE UNION {{<<x>> \o rest : rest \in Orders(S \ {x})} : x \in S}

Rearrangements(v) == {[i \in 1..Len(v) |-> v[o[i]]] : o \in Orders(1..Len(v))}

\* all_packets.sort_by(..): the stable sort when the closure is a total order;
\* otherwise the order is unspecified and the call may panic.
SortOutcomes(v) ==
    IF TotalOrder(v)
    THEN {[kind |-> "Sorted", v |-> StableSort(v)]}
    ELSE {[kind |-> "Sorted", v |-> w] : w \in Rearrangements(v)}
             \cup {[kind |-> "Panic", v |-> v]}

(***************************************************************************)
(* build_segments.                                                         *)
(***************************************************************************)
\* The loop without the push of the last run after it.
RECURSIVE BuildSegmentsLoopNoLastRun(_, _, _, _, _)
BuildSegmentsLoopNoLastRun(ps, index, start_index, current_source, acc) ==
    IF index >= Len(ps)
    THEN acc
    ELSE IF Get(ps, index).source = current_source
         THEN BuildSegmentsLoopNoLastRun(ps, index + 1, start_index,
                  current_source, acc)
         ELSE BuildSegmentsLoopNoLastRun(ps, index + 1, index,
                  Get(ps, index).source,
                  Append(acc, Segment(current_source, ps, start_index, index)))

\* The for loop and the push of the last run after it.
RECURSIVE BuildSegmentsLoop(_, _, _, _, _)
BuildSegmentsLoop(ps, index, start_index, current_source, acc) ==
    IF index >= Len(ps)
    THEN IF start_index < Len(ps)
         THEN Append(acc, Segment(current_source, ps, start_index, Len(ps)))
         ELSE acc
    ELSE IF Get(ps, index).source = current_source
         THEN BuildSegmentsLoop(ps, index + 1, start_index, current_source, acc)
         ELSE BuildSegmentsLoop(ps, index + 1, index, Get(ps, index).source,
                  Append(acc, Segment(current_source, ps, start_index, index)))

\* build_segments with current_source starting as Source::Controller
\* whatever the first packet is.
BuildSegmentsFromController(ps) ==
    IF Len(ps) = 0 THEN <<>>
    ELSE BuildSegmentsLoop(ps, 0, 0, "Controller", <<>>)

BuildSegments(ps) ==
    IF Len(ps) = 0 THEN <<>>
    ELSE BuildSegmentsLoop(ps, 0, 0, Get(ps, 0).source, <<>>)

(***************************************************************************)
(* Inputs.                                                                 *)
(***************************************************************************)
Sources == {"Desk", "Controller"}

\* What a capture row can hold as far as parse_packets tells frames apart.
FrameValues ==
    {Value(START), Value(END), Value(3), Value(1), ParityError("pe"),
     FramingError("fe")}

\* One transmission as captured: the sentinels around two payload bytes, or
\* around nothing.
Burst(t) == <<Frame(t, Value(START)), Frame(t, Value(3)),
              Frame(t + 1, Value(1)), Frame(t + 1, Value(END))>>
EmptyBurst == <<Frame(0, Value(START)), Frame(0, Value(END))>>
Times == 0..MaxTime
Bursts == {Burst(t) : t \in Times} \cup {EmptyBurst}

RECURSIVE Flatten(_)
Flatten(ss) == IF ss = <<>> THEN <<>> ELSE ss[1] \o Flatten(Tail(ss))

\* The captures of one device that hold n transmissions.
Captures(n) == {Flatten(bs) : bs \in [1..n -> Bursts]}

(***************************************************************************)
(* main: parse both captures, merge, sort, segment.                        *)
(***************************************************************************)
AsmIdle == frames = <<>> /\ source = None /\ packets = <<>>
RowIdle == record = <<>> /\ records_read = 0 /\ parsed_frames = <<>>
CodecIdle ==
    raw_data = <<>> /\ called = None /\ ret = [kind |-> None] /\ inserted = FALSE
CmdIdle ==
    command = [kind |-> None] /\ written = [kind |-> None] /\ decoded = [kind |-> None]

Init ==
    /\ pc = "main"
    /\ \E n \in 0..MaxPackets : \E m \in 0..(MaxPackets - n) :
          /\ controller_frames \in Captures(n)
          /\ desk_frames \in Captures(m)
    /\ controller_packets = <<>>
    /\ desk_packets = <<>>
    /\ all_packets = <<>>
    /\ segments = <<>>
    /\ AsmIdle
    /\ RowIdle
    /\ CodecIdle
    /\ CmdIdle

ParseControllerPackets ==
    /\ pc = "main"
    /\ controller_packets' = ParsePackets(controller_frames, "Controller")
    /\ pc' = "controller_parsed"
    /\ UNCHANGED <<controller_frames, desk_frames, desk_packets, all_packets,
                   segments, asmVars, rowVars, codecVars, cmdVars>>

ParseDeskPackets ==
    /\ pc = "controller_parsed"
    /\ desk_packets' = ParsePackets(desk_frames, "Desk")
    /\ pc' = "desk_parsed"
    /\ UNCHANGED <<controller_frames, desk_frames, controller_packets,
                   all_packets, segments, asmVars, rowVars, codecVars,
                   cmdVars>>

\* let mut all_packets = controller_packets; all_packets.append(&mut desk_packets);
\* append leaves desk_packets empty.
AppendPackets ==
    /\ pc = "desk_parsed"
    /\ all_packets' = controller_packets \o desk_packets
    /\ desk_packets' = <<>>
    /\ pc' = "appended"
    /\ UNCHANGED <<controller_frames, desk_frames, controller_packets, segments,
                   asmVars, rowVars, codecVars, cmdVars>>

SortPackets ==
    /\ pc = "appended"
    /\ \E outcome \in SortOutcomes(all_packets) :
          IF outcome.kind = "Panic"
          THEN pc' = "panicked" /\ UNCHANGED all_packets
          ELSE pc' = "sorted" /\ all_packets' = outcome.v
    /\ UNCHANGED <<controller_frames, desk_frames, controller_packets,
                   desk_packets, segments, asmVars, rowVars, codecVars,
                   cmdVars>>

BuildSegmentsCall ==
    /\ pc = "sorted"
    /\ segments' = BuildSegments(all_packets)
    /\ pc' = "done"
    /\ UNCHANGED <<controller_frames, desk_frames, controller_packets,
                   desk_packets, all_packets, asmVars, rowVars, codecVars,
                   cmdVars>>

Next ==
    \/ ParseControllerPackets
    \/ ParseDeskPackets
    \/ AppendPackets
    \/ SortPackets
    \/ BuildSegmentsCall

Spec == Init /\ [][Next]_vars

(***************************************************************************)
(* parse_packets on its own, over every frame sequence.                    *)
(***************************************************************************)
MainIdle ==
    /\ controller_frames = <<>>
    /\ desk_frames = <<>>
    /\ controller_packets = <<>>
    /\ desk_packets = <<>>
    /\ all_packets = <<>>
    /\ segments = <<>>

InitAssembler ==
    /\ pc = "parse_packets"
    /\ \E n \in 0..MaxFrames : \E vs \in [1..n -> FrameValues] :
          frames = [i \in 1..n |-> Frame(i - 1, vs[i])]
    /\ source \in Sources
    /\ packets = <<>>
    /\ MainIdle
    /\ RowIdle
    /\ CodecIdle
    /\ CmdIdle

ParsePacketsCall ==
    /\ pc = "parse_packets"
    /\ packets' = ParsePackets(frames, source)
    /\ pc' = "packets_returned"
    /\ UNCHANGED <<frames, source, mainVars, rowVars, codecVars, cmdVars>>

NextAssembler == ParsePacketsCall

SpecAssembler == InitAssembler /\ [][NextAssembler]_vars

(***************************************************************************)
(* parse_frames: one capture record to one Frame.  A field is the sequence *)
(* of its characters.                                                      *)
(***************************************************************************)
Ok(v) == [kind |-> "Ok", val |-> v]
Err(e) == [kind |-> "Err", val |-> e]
Panicked(m) == [kind |-> "Panic", val |-> m]

LowerDigits == <<"0", "1", "2", "3", "4", "5", "6", "7", "8", "9",
                 "a", "b", "c", "d", "e", "f">>
UpperDigits == <<"0", "1", "2", "3", "4", "5", "6", "7", "8", "9",
                 "A", "B", "C", "D", "E", "F">>

\* char::to_digit(radix)
IsDigit(c, radix) == \E i \in 1..radix : LowerDigits[i] = c \/ UpperDigits[i] = c
ToDigit(c, radix) ==
    (CHOOSE i \in 1..radix : LowerDigits[i] = c \/ UpperDigits[i] = c) - 1

RECURSIVE DigitsValue(_, _, _)
DigitsValue(digits, radix, acc) ==
    IF digits = <<>> THEN acc
    ELSE DigitsValue(Tail(digits), radix, acc * radix + ToDigit(digits[1], radix))

\* u8::from_str_radix(src, 16): an optional "+", then at least one digit of
\* the radix, the value at most u8::MAX.
FromStrRadix16(src) ==
    LET digits == IF src # <<>> /\ src[1] = "+" THEN Tail(src) ELSE src
    IN IF src = <<>> THEN Err("Empty")
       ELSE IF digits = <<>> THEN Err("InvalidDigit")
       ELSE IF \E i \in 1..Len(digits) : ~IsDigit(digits[i], 16)
       THEN Err("InvalidDigit")
       ELSE IF DigitsValue(digits, 16, 0) > 255 THEN Err("PosOverflow")
       ELSE Ok(DigitsValue(digits, 16, 0))

\* str::parse::<f64>() on the fields the model draws: an optional sign, decimal
\* digits with at most one ".", at least one digit.  The value is kept in
\* tenths, the resolution of the times drawn.
ParseF64(src) ==
    LET signed == src # <<>> /\ src[1] \in {"+", "-"}
        body == IF signed THEN Tail(src) ELSE src
        dots == {i \in 1..Len(body) : body[i] = "."}
        dot == IF dots = {} THEN Len(body) + 1 ELSE CHOOSE i \in dots : TRUE
        whole == SubSeq(body, 1, dot - 1)
        fraction == SubSeq(body, dot + 1, Len(body))
        tenths == DigitsValue(whole, 10, 0) * 10
                      + (IF fraction = <<>> THEN 0 ELSE ToDigit(fraction[1], 10))
    IN IF /\ Cardinality(dots) <= 1
          /\ \A i \in 1..Len(body) : body[i] = "." \/ IsDigit(body[i], 10)
          /\ \E i \in 1..Len(body) : IsDigit(body[i], 10)
       THEN Ok(IF signed /\ src[1] = "-" THEN 0 - tenths ELSE tenths)
       ELSE Err("ParseFloatError")

\* StringRecord::get(i)
Field(rec, i) == IF i < Len(rec) THEN <<Get(rec, i)>> ELSE <<>>

\* The match on (record.get(2), record.get(3)) with the framing error tried
\* first.
FrameValueFramingFirst(rec, value) ==
    IF Field(rec, 3) # <<>> /\ Field(rec, 3)[1] # <<>>
    THEN FramingError(Field(rec, 3)[1])
    ELSE IF Field(rec, 2) # <<>> /\ Field(rec, 2)[1] # <<>>
    THEN ParityError(Field(rec, 2)[1])
    ELSE Value(value)

\* The match on (record.get(2), record.get(3)).
FrameValueOf(rec, value) ==
    IF Field(rec, 2) # <<>> /\ Field(rec, 2)[1] # <<>>
    THEN ParityError(Field(rec, 2)[1])
    ELSE IF Field(rec, 3) # <<>> /\ Field(rec, 3)[1] # <<>>
    THEN FramingError(Field(rec, 3)[1])
    ELSE Value(value)

\* One iteration of the loop over csv_reader.records(): the Frame pushed, the
\* error returned by "?", or the panic of an index out of range.
ParseRecord(rec) ==
    IF Len(rec) < 1 THEN Panicked("record[0]")
    ELSE IF ParseF64(Get(rec, 0)).kind = "Err" THEN ParseF64(Get(rec, 0))
    ELSE IF Len(rec) < 2 THEN Panicked("record[1]")
    ELSE IF Len(Get(rec, 1)) < 2 THEN Panicked("record[1][2..]")
    ELSE LET byte == FromStrRadix16(Slice(Get(rec, 1), 2, Len(Get(rec, 1))))
         IN IF byte.kind = "Err" THEN byte
            ELSE Ok(Frame(ParseF64(Get(rec, 0)).val, FrameValueOf(rec, byte.val)))

\* The fields drawn for a record.
TimeFields == {<<"0", ".", "1">>, <<"2">>, <<"x">>, <<>>}
ByteFields == {<<"0", "x", "F", "A">>, <<"0", "x", "0", "3">>, <<"b", "a", "d">>,
               <<"0", "x", "Z", "Z">>, <<"0", "x", "1", "0", "0">>, <<"0", "x">>,
               <<"x", "x", "F", "D">>, <<"x">>}
ParityFields == {<<>>, <<"p", "e">>}
FramingFields == {<<>>, <<"f", "e">>}

Records ==
    {<<t>> : t \in TimeFields}
        \cup {<<t, b>> : t \in TimeFields, b \in ByteFields}
        \cup {<<t, b, pe>> : t \in TimeFields, b \in ByteFields, pe \in ParityFields}
        \cup {<<t, b, pe, fe>> : t \in TimeFields, b \in ByteFields,
                                 pe \in ParityFields, fe \in FramingFields}

InitDecoder ==
    /\ pc = "records"
    /\ record = <<>>
    /\ records_read = 0
    /\ parsed_frames = <<>>
    /\ MainIdle
    /\ AsmIdle
    /\ CodecIdle
    /\ CmdIdle

\* for result in csv_reader.records() { ... }: one more record.
ReadRecord ==
    /\ pc = "records"
    /\ records_read < MaxRows
    /\ \E rec \in Records :
          /\ record' = rec
          /\ records_read' = records_read + 1
          /\ IF ParseRecord(rec).kind = "Ok"
             THEN /\ parsed_frames' = Append(parsed_frames, ParseRecord(rec).val)
                  /\ pc' = "records"
             ELSE /\ UNCHANGED parsed_frames
                  /\ pc' = IF ParseRecord(rec).kind = "Err" THEN "returned_err"
                           ELSE "panicked"
    /\ UNCHANGED <<mainVars, asmVars, codecVars, cmdVars>>

\* No record is left: Ok(parsed_frames)
EndOfRecords ==
    /\ pc = "records"
    /\ pc' = "returned_ok"
    /\ UNCHANGED <<mainVars, asmVars, rowVars, codecVars, cmdVars>>

NextDecoder == ReadRecord \/ EndOfRecords

SpecDecoder == InitDecoder /\ [][NextDecoder]_vars

(***************************************************************************)
(* protocol: Packet, a view of a byte buffer.  protocol.rs and             *)
(* new_protocol.rs hold the same methods, but for get_data.                *)
(***************************************************************************)
RECURSIVE Xor(_, _)
Xor(a, b) ==
    IF a = 0 THEN b
    ELSE IF b = 0 THEN a
    ELSE (((a % 2) + (b % 2)) % 2) + 2 * Xor(a \div 2, b \div 2)

\* .iter().fold(0, |acc, &b| acc ^ b)
RECURSIVE FoldXor(_, _)
FoldXor(bytes, acc) ==
    IF bytes = <<>> THEN acc ELSE FoldXor(Tail(bytes), Xor(acc, bytes[1]))

\* &raw[lo..hi], which panics unless lo <= hi <= len.  hi comes from usize
\* arithmetic: a negative hi here is the subtraction that overflowed.
CheckedSlice(raw, lo, hi) ==
    IF 0 <= hi /\ lo <= hi /\ hi <= Len(raw)
    THEN Ok(Slice(raw, lo, hi))
    ELSE Panicked("slice index")

\* raw[i]
CheckedIndex(raw, i) ==
    IF 0 <= i /\ i < Len(raw) THEN Ok(Get(raw, i)) ELSE Panicked("index")

GetCommandPrefix(raw) == CheckedIndex(raw, 1)
GetCommandId(raw) == CheckedIndex(raw, 2)
GetChecksum(raw) == CheckedIndex(raw, Len(raw) - 2)

\* u16::from_be_bytes of raw[len-4..=len-3]
GetPacketNum(raw) ==
    LET slice == CheckedSlice(raw, Len(raw) - 4, Len(raw) - 2)
    IN IF Len(raw) < 4 \/ slice.kind = "Panic" THEN Panicked("slice index")
       ELSE Ok(slice.val[1] * 256 + slice.val[2])

\* protocol.rs: get_data(len) is &raw[3..3 + len]
GetData(raw, len) == CheckedSlice(raw, 3, 3 + len)

\* new_protocol.rs: get_data() is &raw[3..len - 4]
GetDataOfNewProtocol(raw) == CheckedSlice(raw, 3, Len(raw) - 4)

\* The checksum over raw[1..len-1], the stored checksum included.
ComputedChecksumToTheEnd(raw) ==
    LET covered == CheckedSlice(raw, 1, Len(raw) - 1)
    IN IF covered.kind = "Panic" THEN covered ELSE Ok(FoldXor(covered.val, 0))

\* The checksum both methods compute: the fold over raw[1..len-2].
ComputedChecksum(raw) ==
    LET covered == CheckedSlice(raw, 1, Len(raw) - 2)
    IN IF covered.kind = "Panic" THEN covered ELSE Ok(FoldXor(covered.val, 0))

ValidateChecksum(raw) ==
    IF ComputedChecksum(raw).kind = "Panic" THEN ComputedChecksum(raw)
    ELSE IF GetChecksum(raw).kind = "Panic" THEN GetChecksum(raw)
    ELSE IF ComputedChecksum(raw).val = GetChecksum(raw).val
    THEN Ok("Valid")
    ELSE Ok("Invalid")

\* The buffer after insert_checksum, or its panic.
InsertChecksum(raw) ==
    IF ComputedChecksum(raw).kind = "Panic" THEN ComputedChecksum(raw)
    ELSE IF CheckedIndex(raw, Len(raw) - 2).kind = "Panic"
    THEN CheckedIndex(raw, Len(raw) - 2)
    ELSE Ok([raw EXCEPT ![Len(raw) - 1] = ComputedChecksum(raw).val])

\* The bytes drawn for a buffer.
BufferBytes == {0, 1, START}

InitCodec ==
    /\ pc = "packet"
    /\ \E n \in 0..MaxLen : raw_data \in [1..n -> BufferBytes]
    /\ called = None
    /\ ret = [kind |-> None]
    /\ inserted = FALSE
    /\ MainIdle
    /\ AsmIdle
    /\ RowIdle
    /\ CmdIdle

\* A &self method: the buffer is left as it is; a panic ends the run.
Call(method, result) ==
    /\ pc = "packet"
    /\ called' = method
    /\ ret' = result
    /\ pc' = IF result.kind = "Panic" THEN "panicked" ELSE "packet"
    /\ UNCHANGED <<raw_data, inserted, mainVars, asmVars, rowVars, cmdVars>>

CallGetCommandPrefix == Call("get_command_prefix", GetCommandPrefix(raw_data))
CallGetCommandId == Call("get_command_id", GetCommandId(raw_data))
CallGetChecksum == Call("get_checksum", GetChecksum(raw_data))
CallGetPacketNum == Call("get_packet_num", GetPacketNum(raw_data))
CallGetData == \E len \in 0..2 : Call("get_data", GetData(raw_data, len))
CallGetDataOfNewProtocol ==
    Call("new_protocol::get_data", GetDataOfNewProtocol(raw_data))
CallValidateChecksum == Call("validate_checksum", ValidateChecksum(raw_data))

CallInsertChecksum ==
    /\ pc = "packet"
    /\ called' = "insert_checksum"
    /\ IF InsertChecksum(raw_data).kind = "Panic"
       THEN /\ ret' = InsertChecksum(raw_data)
            /\ pc' = "panicked"
            /\ UNCHANGED <<raw_data, inserted>>
       ELSE /\ ret' = Ok("()")
            /\ raw_data' = InsertChecksum(raw_data).val
            /\ inserted' = TRUE
            /\ pc' = "packet"
    /\ UNCHANGED <<mainVars, asmVars, rowVars, cmdVars>>

NextCodec ==
    \/ CallGetCommandPrefix
    \/ CallGetCommandId
    \/ CallGetChecksum
    \/ CallGetPacketNum
    \/ CallGetData
    \/ CallGetDataOfNewProtocol
    \/ CallValidateChecksum
    \/ CallInsertChecksum

SpecCodec == InitCodec /\ [][NextCodec]_vars

(***************************************************************************)
(* protocol.rs: Command, its write_to and its read_from.                   *)
(***************************************************************************)
DESK_HEIGHT_PREFIX == 24        \* 0x18
CONTROLLER_HEIGHT_PREFIX == 23  \* 0x17
DESK_REPORT_PREFIX == 3         \* 0x03
COMMAND_ID == 0
REPORT_HEIGHT_STATE == 1   \* ReportHeight::STATE
HEIGHT_UP == 3
HEIGHT_DOWN == 4

\* MoveState and ResponseState "as u8"
MoveStateAsU8(state) == IF state = "Stop" THEN 0 ELSE 1
ResponseStateAsU8(state) == 0

\* ChangeHeight::Up(state), ChangeHeight::Down(state)
ChangeHeight(direction, state) == [variant |-> direction, state |-> state]

\* SourceChangeHeight::Desk(..), SourceChangeHeight::Controller { .. }
FromDesk(height_command) == [variant |-> "Desk", height_command |-> height_command]
FromController(height_command, response_state) ==
    [variant |-> "Controller", height_command |-> height_command,
     response_state |-> response_state]

\* ReportHeight(f32): the height is kept in hundredths.
ReportHeight(hundredths) == [hundredths |-> hundredths]

CommandOf(kind, c) == [kind |-> kind, c |-> c]

UnrecognizedCommand(b) == [error |-> "UnrecognizedCommand", byte |-> b]
UnrecognizedChangeHeightCommand(b) ==
    [error |-> "UnrecognizedChangeHeightCommand", byte |-> b]
UnrecognizedReportHeightCommand(b) ==
    [error |-> "UnrecognizedReportHeightCommand", byte |-> b]
UnrecognizedMoveState(b) == [error |-> "UnrecognizedMoveState", byte |-> b]
UnrecognizedResponseState(b) == [error |-> "UnrecognizedResponseState", byte |-> b]

\* u16::to_be_bytes, u16::from_be_bytes
ToBeBytes(n) == <<n \div 256, n % 256>>
FromBeBytes(bytes) == bytes[1] * 256 + bytes[2]

\* (self.0 * 10.) as u16: the cast truncates and saturates.
HeightAsU16(hundredths) ==
    IF hundredths < 0 THEN 0
    ELSE IF hundredths \div 10 > 65535 THEN 65535
    ELSE hundredths \div 10

ChangeHeightWriteTo(height_command) ==
    <<IF height_command.variant = "Up" THEN HEIGHT_UP ELSE HEIGHT_DOWN,
      MoveStateAsU8(height_command.state)>>

SourceChangeHeightWriteTo(c) ==
    IF c.variant = "Desk"
    THEN <<DESK_HEIGHT_PREFIX>> \o ChangeHeightWriteTo(c.height_command)
    ELSE <<CONTROLLER_HEIGHT_PREFIX>> \o ChangeHeightWriteTo(c.height_command)
             \o <<ResponseStateAsU8(c.response_state)>>

ReportHeightWriteTo(c) ==
    <<DESK_REPORT_PREFIX, COMMAND_ID, REPORT_HEIGHT_STATE>> \o ToBeBytes(HeightAsU16(c.hundredths))

\* Command::write_to: the bytes given to the writer.  HandShake is todo!();
\* ControllerKeepAlive and Identify have no arm, and the arm of Connect calls
\* SourceConnect::write_to, which matches on the variants of
\* SourceChangeHeight: no bytes are written for any of them.
WriteTo(cmd) ==
    IF cmd.kind = "ChangeHeight" THEN Ok(SourceChangeHeightWriteTo(cmd.c))
    ELSE IF cmd.kind = "ReportHeight" THEN Ok(ReportHeightWriteTo(cmd.c))
    ELSE Panicked("not yet implemented")

\* The buffer Packet views: the start tag, the bytes of the command, the
\* packet number, the checksum and the end tag, at the indices the accessors
\* read them from.
WrapPacket(bytes, packet_num) ==
    InsertChecksum(<<START>> \o bytes \o ToBeBytes(packet_num) \o <<0, END>>).val

MoveStateReadFrom(raw) ==
    IF GetData(raw, 1).kind = "Panic" THEN GetData(raw, 1)
    ELSE IF GetData(raw, 1).val[1] = 0 THEN Ok("Stop")
    ELSE IF GetData(raw, 1).val[1] = 1 THEN Ok("Start")
    ELSE Err(UnrecognizedMoveState(GetData(raw, 1).val[1]))

\* ResponseState::read_from: packet.get_data(1)[0]
ResponseStateReadFrom(raw) ==
    IF GetData(raw, 1).kind = "Panic" THEN GetData(raw, 1)
    ELSE IF GetData(raw, 1).val[1] = 0 THEN Ok("Ok")
    ELSE Err(UnrecognizedResponseState(GetData(raw, 1).val[1]))

ChangeHeightReadFrom(raw) ==
    IF GetCommandId(raw).kind = "Panic" THEN GetCommandId(raw)
    ELSE IF GetCommandId(raw).val \in {HEIGHT_UP, HEIGHT_DOWN}
    THEN IF MoveStateReadFrom(raw).kind # "Ok" THEN MoveStateReadFrom(raw)
         ELSE Ok(ChangeHeight(IF GetCommandId(raw).val = HEIGHT_UP THEN "Up" ELSE "Down",
                              MoveStateReadFrom(raw).val))
    ELSE Err(UnrecognizedChangeHeightCommand(GetCommandId(raw).val))

ReportHeightReadFrom(raw) ==
    IF GetCommandId(raw).kind = "Panic" THEN GetCommandId(raw)
    ELSE IF GetCommandId(raw).val # COMMAND_ID
    THEN Err(UnrecognizedReportHeightCommand(GetCommandId(raw).val))
    ELSE IF GetData(raw, 2).kind = "Panic" THEN GetData(raw, 2)
    ELSE Ok(ReportHeight(FromBeBytes(GetData(raw, 2).val) * 10))

\* Command::read_from
ReadFrom(raw) ==
    IF GetCommandPrefix(raw).kind = "Panic" THEN GetCommandPrefix(raw)
    ELSE IF GetCommandPrefix(raw).val = DESK_HEIGHT_PREFIX
    THEN IF ChangeHeightReadFrom(raw).kind # "Ok" THEN ChangeHeightReadFrom(raw)
         ELSE Ok(CommandOf("ChangeHeight", FromDesk(ChangeHeightReadFrom(raw).val)))
    ELSE IF GetCommandPrefix(raw).val = CONTROLLER_HEIGHT_PREFIX
    THEN IF ChangeHeightReadFrom(raw).kind # "Ok" THEN ChangeHeightReadFrom(raw)
         ELSE IF ResponseStateReadFrom(raw).kind # "Ok" THEN ResponseStateReadFrom(raw)
         ELSE Ok(CommandOf("ChangeHeight",
                     FromController(ChangeHeightReadFrom(raw).val,
                                    ResponseStateReadFrom(raw).val)))
    ELSE IF GetCommandPrefix(raw).val = DESK_REPORT_PREFIX
    THEN IF ReportHeightReadFrom(raw).kind # "Ok" THEN ReportHeightReadFrom(raw)
         ELSE Ok(CommandOf("ReportHeight", ReportHeightReadFrom(raw).val))
    ELSE Err(UnrecognizedCommand(GetCommandPrefix(raw).val))

\* The commands drawn for encoding.
Directions == {"Up", "Down"}
MoveStates == {"Stop", "Start"}
HeightCommands == {ChangeHeight(d, m) : d \in Directions, m \in MoveStates}
Heights == {0, 1000, 1005, 7250}
Commands ==
    {CommandOf("ChangeHeight", FromDesk(h)) : h \in HeightCommands}
        \cup {CommandOf("ChangeHeight", FromController(h, "Ok")) : h \in HeightCommands}
        \cup {CommandOf("ReportHeight", ReportHeight(h)) : h \in Heights}
        \cup {CommandOf("Connect", [variant |-> "Controller"]),
              CommandOf("Connect", [variant |-> "Desk", response_state |-> "Ok"]),
              CommandOf("ControllerKeepAlive", [variant |-> "()"]),
              CommandOf("HandShake", [variant |-> "()"]),
              CommandOf("Identify", [id |-> 1]),
              CommandOf("Identify", [id |-> 70000])}
PacketNums == {0, 258}

\* The packets drawn for decoding: every byte read_from can look at, and
\* buffers cut short.
PrefixBytes == {1, DESK_REPORT_PREFIX, 17, CONTROLLER_HEIGHT_PREFIX,
                DESK_HEIGHT_PREFIX, 85}
IdBytes == {COMMAND_ID, HEIGHT_UP, HEIGHT_DOWN, 9}
DataBytes == {0, 1, 5}
ReceivedPackets ==
    {WrapPacket(<<p, i, d0, d1>>, 0) : p \in PrefixBytes, i \in IdBytes,
                                        d0 \in DataBytes, d1 \in DataBytes}
        \cup {<<>>, <<START>>}
        \cup {<<START, p>> : p \in PrefixBytes}
        \cup {<<START, p, i>> : p \in PrefixBytes, i \in IdBytes}

InitCommand ==
    /\ \/ /\ pc = "command"
          /\ command \in Commands
          /\ raw_data = <<>>
       \/ /\ pc = "received"
          /\ command = [kind |-> None]
          /\ raw_data \in ReceivedPackets
    /\ written = [kind |-> None]
    /\ decoded = [kind |-> None]
    /\ called = None
    /\ ret = [kind |-> None]
    /\ inserted = FALSE
    /\ MainIdle
    /\ AsmIdle
    /\ RowIdle

\* command.write_to(&mut writer)
WriteCommand ==
    /\ pc = "command"
    /\ written' = WriteTo(command)
    /\ pc' = IF WriteTo(command).kind = "Panic" THEN "panicked" ELSE "written"
    /\ UNCHANGED <<command, decoded, mainVars, asmVars, rowVars, codecVars>>

\* The written bytes are framed as a packet.
FramePacket ==
    /\ pc = "written"
    /\ \E packet_num \in PacketNums : raw_data' = WrapPacket(written.val, packet_num)
    /\ inserted' = TRUE
    /\ pc' = "framed"
    /\ UNCHANGED <<called, ret, cmdVars, mainVars, asmVars, rowVars>>

\* Command::read_from(&mut packet)
ReadCommand ==
    /\ pc \in {"framed", "received"}
    /\ decoded' = ReadFrom(raw_data)
    /\ pc' = IF ReadFrom(raw_data).kind = "Panic" THEN "panicked" ELSE "read"
    /\ UNCHANGED <<command, written, mainVars, asmVars, rowVars, codecVars>>

NextCommand == WriteCommand \/ FramePacket \/ ReadCommand

SpecCommand == InitCommand /\ [][NextCommand]_vars

(***************************************************************************)
(* Properties of parse_packets (SpecAssembler).                            *)
(***************************************************************************)
IsStart(fs, i) == Get(fs, i).value = Value(START)
IsEnd(fs, i) == Get(fs, i).value = Value(END)
Indices(fs) == 0..(Len(fs) - 1)

\* C1: every packet parse_packets returns holds the frames strictly between
\* a Value(0xFA) at s and a Value(0xFD) at e of the frame sequence, i.e. the
\* slice frames[s+1..e); and a Value(0xFA) with no Value(0xFD) after it is
\* the start of no packet.
C1_PayloadBetweenSentinels ==
    pc = "packets_returned" =>
        /\ \A k \in 1..Len(packets) :
              \E s, e \in Indices(frames) :
                  /\ s < e
                  /\ IsStart(frames, s)
                  /\ IsEnd(frames, e)
                  /\ packets[k].lo = s + 1
                  /\ packets[k].hi = e
                  /\ packets[k].data = Slice(frames, s + 1, e)
                  /\ packets[k].source = source
        /\ \A s \in Indices(frames) :
              (IsStart(frames, s) /\ \A e \in Indices(frames) : e > s => ~IsEnd(frames, e))
                  => \A k \in 1..Len(packets) : packets[k].lo # s + 1

\* A packet was returned and a later start sentinel was left unterminated.
C1_Witness ==
    /\ pc = "packets_returned"
    /\ Len(packets) = 1
    /\ Len(packets[1].data) > 0
    /\ \E s \in Indices(frames) :
          /\ s > packets[1].hi
          /\ IsStart(frames, s)
          /\ \A e \in Indices(frames) : e > s => ~IsEnd(frames, e)

\* The reference scan "last start wins".
Max(S) == CHOOSE x \in S : \A y \in S : y <= x
PreviousEnd(fs, e) == Max({-1} \cup {x \in Indices(fs) : x < e /\ IsEnd(fs, x)})
LatestStart(fs, e) == Max({-1} \cup {s \in Indices(fs) : s < e /\ IsStart(fs, s)})
\* The ends that close a packet: a start lies after the previous end.
EmittingEnds(fs) ==
    {e \in Indices(fs) : IsEnd(fs, e) /\ LatestStart(fs, e) > PreviousEnd(fs, e)}
Rank(S, e) == Cardinality({x \in S : x < e}) + 1
ValuesOf(fs) == [i \in 1..Len(fs) |-> fs[i].value]

\* C12: parse_packets returns the packets of the scan "last start wins": in
\* source order one packet for each Value(0xFD) at e with a Value(0xFA) after
\* the previous Value(0xFD) (or the start of the stream), holding
\* frames[s+1..e) for the latest Value(0xFA) at s before e, error frames
\* included; any other Value(0xFD) gives nothing.  The controller's frames
\* 0xFA, 0x03, 0x01, 0xFD give one Controller packet holding 0x03, 0x01.
C12_LastStartWins ==
    pc = "packets_returned" =>
        /\ Len(packets) = Cardinality(EmittingEnds(frames))
        /\ \A e \in EmittingEnds(frames) :
              packets[Rank(EmittingEnds(frames), e)]
                  = Packet(source, frames, LatestStart(frames, e) + 1, e)
        /\ (/\ source = "Controller"
            /\ ValuesOf(frames) = <<Value(START), Value(3), Value(1), Value(END)>>)
              => /\ Len(packets) = 1
                 /\ packets[1].source = "Controller"
                 /\ ValuesOf(packets[1].data) = <<Value(3), Value(1)>>

\* Two starts before one end, with an error frame between the later start
\* and the end: the packet holds the error frame alone.
C12_Witness ==
    /\ pc = "packets_returned"
    /\ Len(packets) = 1
    /\ \E s1, s2 \in Indices(frames) :
          /\ s1 < s2
          /\ s2 < packets[1].hi
          /\ IsStart(frames, s1)
          /\ IsStart(frames, s2)
    /\ Len(packets[1].data) = 1
    /\ packets[1].data[1].value = ParityError("pe")

(***************************************************************************)
(* Properties of main's merge and of build_segments (Spec).                *)
(***************************************************************************)
SegmentPackets == Flatten([i \in 1..Len(segments) |-> segments[i].packets])

\* C2: build_segments returns no two adjacent Segments of the same device, and
\* the packets of its Segments, concatenated in order, are all_packets.
C2_SegmentsPartition ==
    pc = "done" =>
        /\ \A i \in 1..(Len(segments) - 1) :
              segments[i].source # segments[i + 1].source
        /\ SegmentPackets = all_packets

\* Three segments, one of them of several packets.
C2_Witness ==
    /\ pc = "done"
    /\ Len(segments) >= 3
    /\ \E i \in 1..Len(segments) : Len(segments[i].packets) >= 2

\* C13: every Segment build_segments returns is non-empty, holds packets of
\* the device it is tagged with only, and is a maximal run: the packet of
\* all_packets just before it and the one just after it, if any, are of the
\* other device.  No packets give no Segments.
C13_SegmentsMaximalRuns ==
    pc = "done" =>
        /\ \A i \in 1..Len(segments) :
              /\ Len(segments[i].packets) > 0
              /\ segments[i].packets
                    = Slice(all_packets, segments[i].lo, segments[i].hi)
              /\ \A k \in 1..Len(segments[i].packets) :
                    segments[i].packets[k].source = segments[i].source
              /\ segments[i].lo > 0 =>
                    Get(all_packets, segments[i].lo - 1).source # segments[i].source
              /\ segments[i].hi < Len(all_packets) =>
                    Get(all_packets, segments[i].hi).source # segments[i].source
        /\ all_packets = <<>> => segments = <<>>

\* A run of several packets with a Segment of the other device on each side.
C13_Witness ==
    /\ pc = "done"
    /\ Len(segments) = 3
    /\ Len(segments[2].packets) >= 2
    /\ segments[2].lo > 0
    /\ segments[2].hi < Len(all_packets)

NonEmptyPayloads(ps) == \A i \in 1..Len(ps) : Len(ps[i].data) > 0
FirstTime(p) == Get(p.data, 0).time

MergedInput ==
    ParsePackets(controller_frames, "Controller") \o ParsePackets(desk_frames, "Desk")

\* C9: when a packet with an empty payload is among the packets merged, the
\* merge does not crash and does not place it in the timeline: the sort does
\* not panic and no packet of all_packets has an empty payload.
C9_EmptyPacketNotPlaced ==
    (pc \in {"sorted", "panicked", "done"} /\ ~NonEmptyPayloads(MergedInput)) =>
        /\ pc # "panicked"
        /\ NonEmptyPayloads(all_packets)

\* Where the packet p stands in ps (0 if nowhere).
PositionsOf(ps, p) == {i \in 1..Len(ps) : ps[i] = p}
PositionOf(ps, p) == IF PositionsOf(ps, p) = {} THEN 0 ELSE Max(PositionsOf(ps, p))
\* ps rearranges qs: every packet of qs once, and nothing else.
IsRearrangement(ps, qs) ==
    /\ Len(ps) = Len(qs)
    /\ \A i \in 1..Len(qs) : Cardinality(PositionsOf(ps, qs[i])) = 1
\* The sort has returned and no packet, merged or parsed, has an empty payload.
Merged ==
    /\ pc \in {"sorted", "done"}
    /\ NonEmptyPayloads(all_packets)
    /\ NonEmptyPayloads(MergedInput)

IsHexByteField(field) ==
    /\ Len(field) >= 3
    /\ field[1] = "0"
    /\ field[2] = "x"
    /\ \A i \in 3..Len(field) : IsDigit(field[i], 16)
    /\ DigitsValue(SubSeq(field, 3, Len(field)), 16, 0) <= 255

\* an optional sign, decimal digits, at most one "."
IsDecimalNumber(field) ==
    LET body == IF field # <<>> /\ field[1] \in {"+", "-"} THEN Tail(field) ELSE field
    IN /\ \A i \in 1..Len(body) : body[i] = "." \/ IsDigit(body[i], 10)
       /\ \E i \in 1..Len(body) : IsDigit(body[i], 10)
       /\ Cardinality({i \in 1..Len(body) : body[i] = "."}) <= 1

\* C6: parse_frames returns an error for every record whose byte field is not
\* a 0x-prefixed hexadecimal byte (such as "bad") or whose time is not a
\* decimal number, and pushes no Frame for it.
C6_MalformedRowFails ==
    (Len(record) >= 2 /\ (~IsHexByteField(record[2]) \/ ~IsDecimalNumber(record[1])))
        => pc = "returned_err"

TextOf(rec, i) == IF i < Len(rec) THEN Get(rec, i) ELSE <<>>

\* The value the precedence of the policy gives a record.
C10_Precedence(rec) ==
    IF TextOf(rec, 2) # <<>> THEN ParityError(TextOf(rec, 2))
    ELSE IF TextOf(rec, 3) # <<>> THEN FramingError(TextOf(rec, 3))
    ELSE Value(FromStrRadix16(Slice(rec[2], 2, Len(rec[2]))).val)

C10_OneFrameByPrecedence ==
    /\ pc \in {"records", "returned_ok"}
    /\ Len(parsed_frames) = records_read
    /\ parsed_frames[Len(parsed_frames)].value = C10_Precedence(record)

\* C10 as claimed: every record read gives exactly one Frame, its value by
\* the precedence parity error, framing error, byte, whatever the byte field.
C10_EveryRowGivesOneFrame ==
    record # <<>> => C10_OneFrameByPrecedence

\* The time parses, and so does the byte field after its first two characters.
RowParses(rec) ==
    /\ Len(rec) >= 2
    /\ ParseF64(rec[1]).kind = "Ok"
    /\ Len(rec[2]) >= 2
    /\ FromStrRadix16(Slice(rec[2], 2, Len(rec[2]))).kind = "Ok"

\* C10 amended: every record read whose time and byte field parse gives
\* exactly one Frame, its value by the precedence parity error, framing
\* error, byte.
C10_ParsedRowGivesOneFrame ==
    (record # <<>> /\ RowParses(record)) =>
        /\ C10_OneFrameByPrecedence
        /\ parsed_frames[Len(parsed_frames)].time = ParseF64(record[1]).val

\* A second record, with both error texts, became a ParityError frame.
C10_Witness ==
    /\ pc = "records"
    /\ records_read = 2
    /\ Len(record) = 4
    /\ record[3] # <<>>
    /\ record[4] # <<>>
    /\ Len(parsed_frames) = 2
    /\ parsed_frames[2].value = ParityError(record[3])

(***************************************************************************)
(* Properties of the Packet methods (SpecCodec).                           *)
(***************************************************************************)
\* C4: on every buffer, insert_checksum returns and validate_checksum called
\* after it returns Valid.
C4_InsertThenValidate ==
    /\ called = "insert_checksum" => pc # "panicked"
    /\ (inserted /\ called = "validate_checksum") => ret = Ok("Valid")

Accessors == {"get_command_prefix", "get_command_id", "get_packet_num",
              "get_data", "new_protocol::get_data"}

\* C8: on a buffer shorter than five bytes each field accessor returns the
\* error TruncatedPacket.
C8_AccessorsBoundsChecked ==
    (called \in Accessors /\ Len(raw_data) < 4 + 1) => ret = Err("TruncatedPacket")

\* The XOR of raw[lo..=hi], byte by byte from the last index down; 0 for an
\* empty range.
RECURSIVE XorOfRange(_, _, _)
XorOfRange(raw, lo, hi) ==
    IF hi < lo THEN 0 ELSE Xor(XorOfRange(raw, lo, hi - 1), Get(raw, hi))

\* The buffers that differ from raw at most at the indices 0, len-2, len-1.
SameCoveredBytes(raw) ==
    {other \in [1..Len(raw) -> BufferBytes] :
        \A i \in 1..(Len(raw) - 3) : Get(other, i) = Get(raw, i)}

\* C11: on every buffer of at least 3 bytes validate_checksum returns Valid
\* exactly when the byte at len-2 is the XOR of the bytes at 1..=len-3, and
\* Invalid otherwise; the bytes at 0, len-2 and len-1 do not enter the
\* computed checksum.
C11_ValidIffStoredIsXor ==
    (called = "validate_checksum" /\ Len(raw_data) >= 3) =>
        /\ ret = Ok(IF Get(raw_data, Len(raw_data) - 2)
                          = XorOfRange(raw_data, 1, Len(raw_data) - 3)
                    THEN "Valid" ELSE "Invalid")
        /\ \A other \in SameCoveredBytes(raw_data) :
              ComputedChecksum(other) = ComputedChecksum(raw_data)

\* Valid on a buffer nobody inserted a checksum into, with non-zero bytes at
\* 0, len-2 and len-1 and several covered bytes.
C11_Witness ==
    /\ called = "validate_checksum"
    /\ ~inserted
    /\ Len(raw_data) >= 5
    /\ ret = Ok("Valid")
    /\ Get(raw_data, 0) # 0
    /\ Get(raw_data, Len(raw_data) - 2) # 0
    /\ Get(raw_data, Len(raw_data) - 1) # 0

(***************************************************************************)
(* Properties of Command (SpecCommand).                                    *)
(***************************************************************************)
\* C3: for every command, read_from on the packet that frames the bytes of
\* write_to returns that command.  (The commands write_to writes no bytes for
\* never get as far as read_from.)
C3_RoundTrip ==
    (command \in Commands /\ pc = "read") => decoded = Ok(command)

\* C14: a ChangeHeight of the controller is written with a response-state
\* byte after the motion-state byte and read back with each taken from its
\* own byte: for Up and Down, Stop and Start, the packet of the bytes written
\* for Controller { height_command, response_state: Ok } decodes to the same
\* direction, the same motion state and Ok; a ChangeHeight of the desk is
\* written and read without a response-state byte.
C14_ControllerOwnBytes ==
    (pc = "read" /\ command.kind = "ChangeHeight") =>
        IF command.c.variant = "Controller"
        THEN /\ Len(written.val) = 1 + 2 + 1
             /\ written.val[1] = CONTROLLER_HEIGHT_PREFIX
             /\ decoded = Ok(CommandOf("ChangeHeight",
                               FromController(command.c.height_command, "Ok")))
        ELSE /\ Len(written.val) = 1 + 2
             /\ written.val[1] = DESK_HEIGHT_PREFIX
             /\ decoded = Ok(CommandOf("ChangeHeight",
                               FromDesk(command.c.height_command)))

\* The bytes of a received packet, by the index write_to gives them.
PrefixOf(raw) == Get(raw, 1)
CommandIdOf(raw) == Get(raw, 2)
MoveStateOf(raw) == Get(raw, 3)
ResponseStateOf(raw) == Get(raw, 4)

\* The prefixes of the command id table.
TablePrefixes == {1, DESK_REPORT_PREFIX, 17, 18, 19, 21, 22,
                  CONTROLLER_HEIGHT_PREFIX, DESK_HEIGHT_PREFIX}
HeightPrefixes == {CONTROLLER_HEIGHT_PREFIX, DESK_HEIGHT_PREFIX}
HeightIds == {HEIGHT_UP, HEIGHT_DOWN}

WholePacketRead == pc = "read" /\ command = [kind |-> None] /\ Len(raw_data) = 9

C7_UnknownPrefix ==
    PrefixOf(raw_data) \notin TablePrefixes
        => decoded = Err(UnrecognizedCommand(PrefixOf(raw_data)))
C7_UnknownHeightId ==
    (PrefixOf(raw_data) \in HeightPrefixes /\ CommandIdOf(raw_data) \notin HeightIds)
        => decoded = Err(UnrecognizedChangeHeightCommand(CommandIdOf(raw_data)))
C7_UnknownReportId ==
    (PrefixOf(raw_data) = DESK_REPORT_PREFIX /\ CommandIdOf(raw_data) # COMMAND_ID)
        => decoded = Err(UnrecognizedReportHeightCommand(CommandIdOf(raw_data)))
C7_UnknownMoveState ==
    (/\ PrefixOf(raw_data) \in HeightPrefixes
     /\ CommandIdOf(raw_data) \in HeightIds
     /\ MoveStateOf(raw_data) \notin {0, 1})
        => decoded = Err(UnrecognizedMoveState(MoveStateOf(raw_data)))
C7_UnknownResponseState ==
    (/\ PrefixOf(raw_data) = CONTROLLER_HEIGHT_PREFIX
     /\ CommandIdOf(raw_data) \in HeightIds
     /\ MoveStateOf(raw_data) \in {0, 1}
     /\ ResponseStateOf(raw_data) # 0)
        => decoded = Err(UnrecognizedResponseState(ResponseStateOf(raw_data)))

\* C7: read_from returns the error that carries the offending byte, and no
\* command, for a prefix of no command, a ChangeHeight id other than 0x03 and
\* 0x04, a ReportHeight id other than 0x00, a motion state other than 0 and 1,
\* and a response state other than 0.
C7_TypedErrors ==
    WholePacketRead =>
        /\ C7_UnknownPrefix
        /\ C7_UnknownHeightId
        /\ C7_UnknownReportId
        /\ C7_UnknownMoveState
        /\ C7_UnknownResponseState

=============================================================================
